---- MODULE Spec2Model ----
(***************************************************************************)
(* Model of the two allocators of the repository:                          *)
(*   - LabByteAllocator (arceos/labs/lab_allocator/src/lib.rs), the        *)
(*     segregated-fit byte allocator;                                      *)
(*   - EarlyAllocator (arceos/modules/bump_allocator/src/lib.rs), the      *)
(*     double-ended bootstrap allocator.                                   *)
(*                                                                         *)
(* usize values are 64-bit words.  A word is written as its two's          *)
(* complement representative: a value v >= 2^63 (which only arises from a  *)
(* wrapped subtraction) is written v - 2^64, a negative integer.  Addition *)
(* and subtraction of representatives are the wrapping operations of the   *)
(* machine; comparisons of words go through ULt/ULe.                       *)
(*                                                                         *)
(* overflow_checks is the build flag of rustc (on in the dev profile, off  *)
(* in the release profile): with it, an overflowing subtraction panics;    *)
(* without it the subtraction wraps and a shift amount is masked to the    *)
(* word width.                                                             *)
(***************************************************************************)
EXTENDS Integers, Sequences, FiniteSets, TLC

\* ---------------------------------------------------------------- constants
ALIGNMENT == 3
FL_INDEX_COUNT == 29
SL_INDEX_COUNT == 32
\* core::mem::size_of::<FreeBlockHeader>(): four words of 8 bytes
HEADER_SIZE == 32
\* usize::BITS of the 64-bit targets of the kernel
USIZE_BITS == 64
\* Option<NonNull<_>>::None is the null address
None == 0

\* ------------------------------------------------------------------- bounds
\* longest sequence of calls made on the segregated-fit allocator
MaxOps == 5
\* mapping is applied to every multiple of 8 up to 8 * MaxMapK
MaxMapK == 40
\* longest sequence of calls made on the bootstrap allocator
MaxBumpOps == 5

\* the PAGE_SIZE parameter of EarlyAllocator<PAGE_SIZE>: 4 KiB pages
PAGE_SIZE == 4096

\* region handed to EarlyAllocator::init, as <<start, size>>
BumpRegions == {<<8192, 16384>>}
\* layout.size() and layout.align() of the byte requests
BumpSizes == {8, 100, 8192}
BumpAligns == {1, 64}
\* num_pages and align_pow2 of the page requests
PageCounts == {0, 1, 2, 7}
AlignPow2s == {12, 13}

\* regions handed to init and to add_memory, as <<start, size>>
InitRegions == {<<4096, 4096>>, <<4096, 64>>, <<4100, 64>>}
AddRegions == {<<16384, 1024>>, <<4160, 32>>}
\* layout.size() of the requests (at least one byte)
AllocSizes == {1, 64, 72, 3000, 4064, 5000}
\* words a caller stores in a block it was given: all bits set, 0, 8, 4032, 2^30
CallerWords == {-1, 0, 8, 4032, 1073741824}

\* --------------------------------------------------------------- word tools
RECURSIVE Pow2(_)
Pow2(n) == IF n = 0 THEN 1 ELSE 2 * Pow2(n - 1)

\* x >> n; for a word with its top bit set (negative representative) the
\* result is right in its low USIZE_BITS - n bits
RECURSIVE Shr(_, _)
Shr(x, n) == IF n = 0 \/ x = 0 THEN x ELSE Shr(x \div 2, n - 1)

\* x & !mask, for mask = 2^k - 1
AndNot(x, mask) == x - (x % (mask + 1))

\* unsigned comparison of two words given by their representatives
ULt(a, b) == IF (a < 0) = (b < 0) THEN a < b ELSE b < 0
ULe(a, b) == a = b \/ ULt(a, b)

\* (x + (1 << ALIGNMENT) - 1) & !((1 << ALIGNMENT) - 1)
AlignUp(x) == AndNot(x + Pow2(ALIGNMENT) - 1, Pow2(ALIGNMENT) - 1)
\* x & !((1 << ALIGNMENT) - 1)
AlignDown(x) == AndNot(x, Pow2(ALIGNMENT) - 1)

FLs == 0..(FL_INDEX_COUNT - 1)
SLs == 0..(SL_INDEX_COUNT - 1)

\* ---------------------------------------------------------------- variables
VARIABLES
    overflow_checks,  \* build flag: TRUE = arithmetic overflow panics
    panicked,         \* a call has panicked; the allocator is not used again
    fl_bitmap,        \* LabByteAllocator.fl_bitmap, as the set of its set bits
    sl_bitmap,        \* LabByteAllocator.sl_bitmap, each word as the set of its set bits
    free_blocks,      \* LabByteAllocator.free_blocks, None or a block address
    total_memory,     \* LabByteAllocator.total_memory
    used_memory,      \* LabByteAllocator.used_memory
    mem,              \* the words of managed memory written so far, by address: those the
                      \* allocator wrote, and those of them a caller has overwritten
    live,             \* blocks returned by alloc and not yet deallocated: <<address, layout size>>
    regions,          \* regions registered by init / add_memory: <<start, size>>
    hist,             \* the calls made so far, with their results
    map_sizes,        \* two sizes handed to mapping
    map_classes,      \* the two classes mapping returned for them, <<>> before the call
    start,            \* EarlyAllocator.start
    end,              \* EarlyAllocator.end
    byte_pos,         \* EarlyAllocator.byte_pos
    page_pos,         \* EarlyAllocator.page_pos
    live_bytes,       \* byte ranges returned by alloc and not yet deallocated: <<address, size>>
    live_pages        \* page runs returned by alloc_pages and not yet deallocated: <<address, count>>

labvars == <<fl_bitmap, sl_bitmap, free_blocks, total_memory, used_memory, mem, live, regions>>
vars == <<overflow_checks, panicked, fl_bitmap, sl_bitmap, free_blocks, total_memory,
          used_memory, mem, live, regions, hist, map_sizes, map_classes,
          start, end, byte_pos, page_pos, live_bytes, live_pages>>
bumpvars == <<start, end, byte_pos, page_pos, live_bytes, live_pages>>

\* ------------------------------------------------- LabByteAllocator helpers
\* the while loop of mapping: counts the shifts that bring temp_size to 1;
\* a word with its top bit set (negative representative) takes USIZE_BITS - 1
\* of them
RECURSIVE Log2Loop(_, _)
Log2Loop(temp_size, fl) ==
    IF temp_size < 0 THEN fl + USIZE_BITS - 1
    ELSE IF temp_size > 1 THEN Log2Loop(temp_size \div 2, fl + 1) ELSE fl

\* mapping with the shift left out of the second-level index: sl = size & (SL_INDEX_COUNT - 1)
mapping_unshifted(size, oc) ==
    LET fl == Log2Loop(size, 0)
        sl == size % SL_INDEX_COUNT
    IN  IF oc /\ (fl < SL_INDEX_COUNT \/ fl < 1)
        THEN [panic |-> TRUE, fl |-> 0, sl |-> 0]
        ELSE [panic |-> FALSE, fl |-> fl - 1, sl |-> sl]

\* mapping(size) -> (fl, sl).  fl - SL_INDEX_COUNT and fl - 1 are usize
\* subtractions: with overflow checks they panic when they underflow,
\* without them they wrap and the shift amount is taken modulo the word width.
mapping(size, oc) ==
    LET fl == Log2Loop(size, 0)
        shift == (fl - SL_INDEX_COUNT) % USIZE_BITS
        sl == Shr(size, shift) % SL_INDEX_COUNT
    IN  IF oc /\ (fl < SL_INDEX_COUNT \/ fl < 1)
        THEN [panic |-> TRUE, fl |-> 0, sl |-> 0]
        ELSE [panic |-> FALSE, fl |-> fl - 1, sl |-> sl]

\* the index part of self, as a record
Self == [fl_bitmap |-> fl_bitmap, sl_bitmap |-> sl_bitmap,
         free_blocks |-> free_blocks, panic |-> FALSE]

\* insert_free_block(&mut self, block): the size is read from the header at block
insert_free_block(s, m, block, oc) ==
    LET size == m[block]
        c == mapping(size, oc)
    IN  IF c.panic \/ c.fl \notin FLs
        THEN [s EXCEPT !.panic = TRUE]
        ELSE [s EXCEPT !.free_blocks[c.fl][c.sl] = block,
                       !.fl_bitmap = @ \cup {c.fl},
                       !.sl_bitmap[c.fl] = @ \cup {c.sl}]

\* remove_free_block that leaves the second-level bit set
remove_free_block_keeps_bit(s, fl, sl) ==
    LET block == s.free_blocks[fl][sl]
        fb == [s.free_blocks EXCEPT ![fl][sl] = None]
        flb == IF \A j \in SLs : fb[fl][j] = None
               THEN s.fl_bitmap \ {fl} ELSE s.fl_bitmap
    IN  [state |-> [s EXCEPT !.free_blocks = fb, !.fl_bitmap = flb],
         block |-> block]

\* remove_free_block(&mut self, fl, sl) -> Option<block>
remove_free_block(s, fl, sl) ==
    LET block == s.free_blocks[fl][sl]
        fb == [s.free_blocks EXCEPT ![fl][sl] = None]
        flb == IF \A j \in SLs : fb[fl][j] = None
               THEN s.fl_bitmap \ {fl} ELSE s.fl_bitmap
        slb == IF block # None
               THEN [s.sl_bitmap EXCEPT ![fl] = @ \ {sl}] ELSE s.sl_bitmap
    IN  [state |-> [s EXCEPT !.free_blocks = fb, !.fl_bitmap = flb, !.sl_bitmap = slb],
         block |-> block]

\* sl_mask of find_suitable_block for row i
sl_mask(s, i, fl, sl) ==
    IF i = fl THEN {b \in s.sl_bitmap[i] : b >= sl} ELSE s.sl_bitmap[i]

\* the least element of a non-empty set of bit positions (trailing_zeros)
trailing_zeros(bits) == CHOOSE b \in bits : \A c \in bits : b <= c

\* find_suitable_block(&self, size) -> Option<(fl, sl)>
find_suitable_block(s, size, oc) ==
    LET c == mapping(size, oc)
        rows == IF c.fl < 0 THEN {} ELSE {i \in FLs : i >= c.fl}
        hits == {i \in rows : sl_mask(s, i, c.fl, c.sl) # {}}
    IN  IF c.panic THEN [panic |-> TRUE, found |-> FALSE, fl |-> 0, sl |-> 0]
        ELSE IF hits = {} THEN [panic |-> FALSE, found |-> FALSE, fl |-> 0, sl |-> 0]
        ELSE LET i == CHOOSE i \in hits : \A k \in hits : i <= k
             IN  [panic |-> FALSE, found |-> TRUE, fl |-> i,
                  sl |-> trailing_zeros(sl_mask(s, i, c.fl, c.sl))]

\* one word written to memory
Store(m, a, v) == (a :> v) @@ m

\* the header written by init / add_memory: size, prev_phys_blk, next_free, prev_free
StoreHeader(m, a, size) ==
    Store(Store(Store(Store(m, a, size), a + 8, None), a + 16, None), a + 24, None)

\* an entry of hist
Call(op, a, n, res, ret, blk, used0) ==
    [op |-> op, a |-> a, n |-> n, res |-> res, ret |-> ret, blk |-> blk, used0 |-> used0]

SetIndex(s) ==
    /\ fl_bitmap' = s.fl_bitmap
    /\ sl_bitmap' = s.sl_bitmap
    /\ free_blocks' = s.free_blocks

\* -------------------------------------------- LabByteAllocator operations
\* LabByteAllocator::new()
InitLab ==
    /\ overflow_checks \in BOOLEAN
    /\ panicked = FALSE
    /\ fl_bitmap = {}
    /\ sl_bitmap = [i \in FLs |-> {}]
    /\ free_blocks = [i \in FLs |-> [j \in SLs |-> None]]
    /\ total_memory = 0
    /\ used_memory = 0
    /\ mem = <<>>
    /\ live = {}
    /\ regions = {}
    /\ hist = <<>>
    /\ map_sizes = <<>>
    /\ map_classes = <<>>
    /\ start = 0 /\ end = 0 /\ byte_pos = 0 /\ page_pos = 0
    /\ live_bytes = {} /\ live_pages = {}

CanCall == ~panicked /\ Len(hist) < MaxOps

\* BaseAllocator::init(start, size), called once, first
init(base, size) ==
    LET aligned_start == AlignUp(base)
        aligned_size == AlignDown(size)
        m == StoreHeader(mem, aligned_start, aligned_size)
        s == insert_free_block(Self, m, aligned_start, overflow_checks)
    IN  /\ CanCall
        /\ regions = {}
        /\ mem' = m
        /\ IF s.panic
           THEN /\ panicked' = TRUE
                /\ UNCHANGED <<fl_bitmap, sl_bitmap, free_blocks, total_memory, regions>>
                /\ hist' = Append(hist, Call("init", base, size, "Panic", 0, 0, used_memory))
           ELSE /\ SetIndex(s)
                /\ total_memory' = aligned_size
                /\ regions' = {<<base, size>>}
                /\ hist' = Append(hist, Call("init", base, size, "Ok", 0, 0, used_memory))
                /\ UNCHANGED panicked
        /\ UNCHANGED <<overflow_checks, used_memory, live, map_sizes, map_classes, bumpvars>>

\* BaseAllocator::add_memory(start, size), for a region that meets none of
\* those registered before
add_memory(base, size) ==
    LET aligned_start == AlignUp(base)
        aligned_size == AlignDown(size)
        m == StoreHeader(mem, aligned_start, aligned_size)
        s == insert_free_block(Self, m, aligned_start, overflow_checks)
    IN  /\ CanCall
        /\ regions # {}
        /\ \A r \in regions : base + size <= r[1] \/ r[1] + r[2] <= base
        /\ mem' = m
        /\ IF s.panic
           THEN /\ panicked' = TRUE
                /\ UNCHANGED <<fl_bitmap, sl_bitmap, free_blocks, regions>>
                /\ hist' = Append(hist, Call("add_memory", base, size, "Panic", 0, 0, used_memory))
           ELSE /\ SetIndex(s)
                /\ regions' = regions \cup {<<base, size>>}
                /\ hist' = Append(hist, Call("add_memory", base, size, "Ok", 0, 0, used_memory))
                /\ UNCHANGED panicked
        /\ UNCHANGED <<overflow_checks, total_memory, used_memory, live, map_sizes, map_classes, bumpvars>>

\* the result of ByteAllocator::alloc(layout) on the state (s, m, used):
\* res, the returned address, the size read from the chosen block's header,
\* and the state left behind
alloc_result(s, m, used, layout_size, oc) ==
    LET size == AlignUp(layout_size)
        f == find_suitable_block(s, size, oc)
        r == remove_free_block(s, f.fl, f.sl)
        block == r.block
        block_size == m[block]
        new_block == block + size
        m2 == Store(m, new_block, block_size - size)
        s2 == insert_free_block(r.state, m2, new_block, oc)
    IN  IF f.panic
        THEN [res |-> "Panic", ret |-> 0, blk |-> 0, s |-> s, m |-> m, used |-> used]
        ELSE IF ~f.found
        THEN [res |-> "NoMemory", ret |-> 0, blk |-> 0, s |-> s, m |-> m, used |-> used]
        ELSE IF block = None
        THEN [res |-> "NoMemory", ret |-> 0, blk |-> 0, s |-> r.state, m |-> m, used |-> used]
        ELSE IF ULt(size + HEADER_SIZE, block_size)
        THEN IF s2.panic
             THEN [res |-> "Panic", ret |-> 0, blk |-> block_size,
                   s |-> r.state, m |-> m2, used |-> used]
             ELSE [res |-> "Ok", ret |-> block, blk |-> block_size,
                   s |-> s2, m |-> m2, used |-> used + size]
        ELSE [res |-> "Ok", ret |-> block, blk |-> block_size,
              s |-> r.state, m |-> m, used |-> used + size]

\* ByteAllocator::alloc(layout)
alloc(layout_size) ==
    \E r \in {alloc_result(Self, mem, used_memory, layout_size, overflow_checks)} :
        /\ CanCall
        /\ SetIndex(r.s)
        /\ mem' = r.m
        /\ used_memory' = r.used
        /\ panicked' = (r.res = "Panic")
        /\ live' = IF r.res = "Ok" THEN live \cup {<<r.ret, layout_size>>} ELSE live
        /\ hist' = Append(hist, Call("alloc", 0, layout_size, r.res, r.ret, r.blk, used_memory))
        /\ UNCHANGED <<overflow_checks, total_memory, regions, map_sizes, map_classes, bumpvars>>

\* ByteAllocator::dealloc(pos, layout), for a block alloc returned with this layout
dealloc(pos, layout_size) ==
    LET size == AlignUp(layout_size)
        m == Store(mem, pos, size)
        s == insert_free_block(Self, m, pos, overflow_checks)
    IN  /\ CanCall
        /\ <<pos, layout_size>> \in live
        /\ mem' = m
        /\ live' = live \ {<<pos, layout_size>>}
        /\ IF s.panic \/ (overflow_checks /\ used_memory < size)
           THEN /\ panicked' = TRUE
                /\ IF s.panic THEN UNCHANGED <<fl_bitmap, sl_bitmap, free_blocks>> ELSE SetIndex(s)
                /\ UNCHANGED used_memory
                /\ hist' = Append(hist, Call("dealloc", pos, layout_size, "Panic", 0, 0, used_memory))
           ELSE /\ SetIndex(s)
                /\ used_memory' = used_memory - size
                /\ hist' = Append(hist, Call("dealloc", pos, layout_size, "Ok", 0, 0, used_memory))
                /\ UNCHANGED panicked
        /\ UNCHANGED <<overflow_checks, total_memory, regions, map_sizes, map_classes, bumpvars>>

\* the addresses of the blocks held by the index
FreeSet == {free_blocks[i][j] : i \in FLs, j \in SLs} \ {None}

\* The caller of alloc owns the layout.size() bytes at the address it was
\* given and stores what it likes there.  The allocator reads one kind of
\* word only, the size word of a block held by free_blocks, so the stores
\* that can be observed are those to such a word lying in a live block.
caller_write(b, a, v) ==
    /\ ~panicked
    /\ b \in live
    /\ b[1] <= a /\ a + 8 <= b[1] + b[2]
    /\ a \in FreeSet
    /\ mem[a] # v
    /\ mem' = Store(mem, a, v)
    /\ UNCHANGED <<overflow_checks, panicked, fl_bitmap, sl_bitmap, free_blocks,
                   total_memory, used_memory, live, regions, hist,
                   map_sizes, map_classes, bumpvars>>

\* the accessors
total_bytes == total_memory
used_bytes == used_memory
\* total_memory - used_memory: a negative representative is the wrapped
\* difference 2^64 + total_memory - used_memory (build without overflow checks)
available_bytes == total_memory - used_memory

NextLab ==
    \/ \E r \in InitRegions : init(r[1], r[2])
    \/ \E r \in AddRegions : add_memory(r[1], r[2])
    \/ \E n \in AllocSizes : alloc(n)
    \/ \E b \in live : dealloc(b[1], b[2])
    \/ \E b \in live, a \in FreeSet, v \in CallerWords : caller_write(b, a, v)

Spec == InitLab /\ [][NextLab]_vars

\* ------------------------------------------------------- mapping, on its own
\* the sizes mapping is applied to: every multiple of 8 up to 8 * MaxMapK, and
\* the multiples of 8 around each power of two below 2^30, the first size whose
\* row lies outside free_blocks
MapSizes ==
    {8 * k : k \in 1..MaxMapK}
    \cup {s \in UNION {{Pow2(j) - 8, Pow2(j), Pow2(j) + 8} : j \in 4..30} : s < Pow2(30)}

InitMapping ==
    /\ overflow_checks \in BOOLEAN
    /\ panicked = FALSE
    /\ fl_bitmap = {}
    /\ sl_bitmap = [i \in FLs |-> {}]
    /\ free_blocks = [i \in FLs |-> [j \in SLs |-> None]]
    /\ total_memory = 0
    /\ used_memory = 0
    /\ mem = <<>>
    /\ live = {}
    /\ regions = {}
    /\ hist = <<>>
    /\ map_sizes \in {p \in MapSizes \X MapSizes : p[1] < p[2]}
    /\ map_classes = <<>>
    /\ start = 0 /\ end = 0 /\ byte_pos = 0 /\ page_pos = 0
    /\ live_bytes = {} /\ live_pages = {}

\* mapping is applied to both sizes
MapBoth ==
    /\ map_classes = <<>>
    /\ map_classes' = <<mapping(map_sizes[1], overflow_checks),
                        mapping(map_sizes[2], overflow_checks)>>
    /\ UNCHANGED <<overflow_checks, panicked, labvars, hist, map_sizes, bumpvars>>

NextMapping == MapBoth

SpecMapping == InitMapping /\ [][NextMapping]_vars

\* ------------------------------------------------- LabByteAllocator claims
\* the calls of hist that are successful allocations
OkAllocs == {i \in DOMAIN hist : hist[i].op = "alloc" /\ hist[i].res = "Ok"}

\* used_memory as the call after hist[i] found it
UsedAfter(i) == IF i < Len(hist) THEN hist[i + 1].used0 ELSE used_memory

\* (fl, sl) ordering of two classes
LexLe(c1, c2) == c1.fl < c2.fl \/ (c1.fl = c2.fl /\ c1.sl <= c2.sl)

\* some bucket at or above the class of size is non-empty; a mapping that
\* panics gives no class, and no bucket is at or above it
Eligible(size) ==
    LET c == mapping(size, overflow_checks)
    IN  /\ ~c.panic
        /\ \E i \in FLs, j \in SLs :
               /\ free_blocks[i][j] # None
               /\ LexLe(c, [fl |-> i, sl |-> j])

\* C1: every successful alloc(size, _) returns a block whose recorded size,
\* the size in the header of the free block find_suitable_block selected, is
\* at least size rounded up to 8.
C1_NoUnderAllocation ==
    \A i \in OkAllocs : ULe(AlignUp(hist[i].n), hist[i].blk)

\* C2: after every operation used_bytes() + available_bytes() == total_bytes(),
\* as numbers of bytes: available_bytes() is not a wrapped difference.
C2_CapacityConservation ==
    /\ available_bytes >= 0
    /\ used_bytes + available_bytes = total_bytes

\* C3: a successful alloc of size S immediately followed by dealloc of the
\* returned address with the same S restores used_bytes to its value before
\* the alloc, and an alloc of a size <= S that follows succeeds, whatever the
\* caller stored in the blocks it was given.
C3_RoundTrip ==
    \A i \in OkAllocs :
        (/\ i < Len(hist)
         /\ hist[i + 1].op = "dealloc"
         /\ hist[i + 1].a = hist[i].ret
         /\ hist[i + 1].n = hist[i].n)
        => /\ hist[i + 1].res = "Ok"
           /\ UsedAfter(i + 1) = hist[i].used0
           /\ (/\ i + 2 <= Len(hist)
               /\ hist[i + 2].op = "alloc"
               /\ hist[i + 2].n <= hist[i].n)
              => hist[i + 2].res = "Ok"

\* the call this step appends to hist is an alloc that split its block
SplitStep ==
    /\ hist' # hist
    /\ LET c == hist'[Len(hist')]
       IN  /\ c.op = "alloc" /\ c.res = "Ok"
           /\ ULt(AlignUp(c.n) + HEADER_SIZE, c.blk)

\* C4: when alloc removes a free block of size original for a rounded request
\* requested with original > requested + size_of(FreeBlockHeader), exactly one
\* new free block is created, at block address + requested with size
\* original - requested, no other free block is added to or lost from the
\* index, and an alloc of size original - requested that follows succeeds.
C4_SplitCorrect ==
    [][ /\ SplitStep =>
            LET c == hist'[Len(hist')]
                requested == AlignUp(c.n)
            IN  /\ FreeSet' = (FreeSet \ {c.ret}) \cup {c.ret + requested}
                /\ mem'[c.ret + requested] = c.blk - requested
        /\ (/\ hist # <<>> /\ hist' # hist
            /\ LET p == hist[Len(hist)]
                   c == hist'[Len(hist')]
               IN  /\ p.op = "alloc" /\ p.res = "Ok"
                   /\ ULt(AlignUp(p.n) + HEADER_SIZE, p.blk)
                   /\ c.op = "alloc"
                   /\ c.n = p.blk - AlignUp(p.n))
           => hist'[Len(hist')].res = "Ok" ]_vars

\* C5: bit sl of sl_bitmap[fl] is set if and only if free_blocks[fl][sl] is
\* non-empty, and bit fl of fl_bitmap is set if and only if some bucket of
\* row fl is non-empty.
C5_IndexConsistent ==
    \A i \in FLs :
        /\ \A j \in SLs : (j \in sl_bitmap[i]) <=> (free_blocks[i][j] # None)
        /\ (i \in fl_bitmap) <=> (\E j \in SLs : free_blocks[i][j] # None)

\* C5 witness: blocks were inserted and removed: two rows hold a block and a
\* row that held the block of init is empty again
C5_Witness ==
    /\ Cardinality(fl_bitmap) >= 2
    /\ OkAllocs # {}
    /\ \E r \in regions :
           LET c == mapping(AlignDown(r[2]), overflow_checks)
           IN  free_blocks[c.fl][c.sl] = None /\ c.fl \notin fl_bitmap

\* C6: for all sizes s1 < s2 that are multiples of 8 from 8 up to the largest
\* managed block, mapping(s1) is lexicographically <= mapping(s2).
C6_ClassMonotone ==
    (map_classes # <<>> /\ ~map_classes[1].panic /\ ~map_classes[2].panic)
        => LexLe(map_classes[1], map_classes[2])

\* C6 witness: mapping returned two different classes for two sizes
C6_Witness ==
    /\ map_classes # <<>>
    /\ ~map_classes[1].panic /\ ~map_classes[2].panic
    /\ map_classes[1] # map_classes[2]
    /\ map_sizes[2] < 2 * map_sizes[1]

\* C7: every alloc returns NoMemory exactly when no bucket at or above the
\* class of the request is non-empty (a panic is not a NoMemory result), and
\* a failed alloc leaves the bucket matrix, both bitmaps, used_memory and
\* total_memory unchanged.
C7_FailureSemantics ==
    [][ (/\ hist' # hist
         /\ hist'[Len(hist')].op = "alloc")
        => LET c == hist'[Len(hist')]
           IN  /\ (c.res = "NoMemory") <=> ~Eligible(AlignUp(c.n))
               /\ (c.res = "NoMemory") =>
                      UNCHANGED <<free_blocks, fl_bitmap, sl_bitmap,
                                  used_memory, total_memory>> ]_vars

\* C8: after init over a 4096-byte region, alloc(64) succeeds and
\* used_bytes == 64; alloc(5000) fails with NoMemory and used_bytes stays 64;
\* dealloc of the 64-byte block gives used_bytes == 0; alloc(4064) then
\* succeeds and the returned block lies inside the 4096-byte region.
C8_Scenario4096 ==
    (/\ Len(hist) = 5
     /\ hist[1].op = "init" /\ hist[1].n = 4096 /\ hist[1].res = "Ok"
     /\ hist[2].op = "alloc" /\ hist[2].n = 64
     /\ hist[3].op = "alloc" /\ hist[3].n = 5000
     /\ hist[4].op = "dealloc" /\ hist[4].a = hist[2].ret /\ hist[4].n = 64
     /\ hist[5].op = "alloc" /\ hist[5].n = 4096 - HEADER_SIZE)
    => /\ hist[2].res = "Ok" /\ UsedAfter(2) = 64
       /\ hist[3].res = "NoMemory" /\ UsedAfter(3) = 64
       /\ UsedAfter(4) = 0
       /\ hist[5].res = "Ok"
       /\ hist[1].a <= hist[5].ret
       /\ hist[5].ret + hist[5].n <= hist[1].a + hist[1].n

\* ---------------------------------------------------------- EarlyAllocator
\* EarlyAllocator::new(); the segregated-fit allocator is left as created
InitBump ==
    /\ overflow_checks \in BOOLEAN
    /\ panicked = FALSE
    /\ fl_bitmap = {}
    /\ sl_bitmap = [i \in FLs |-> {}]
    /\ free_blocks = [i \in FLs |-> [j \in SLs |-> None]]
    /\ total_memory = 0
    /\ used_memory = 0
    /\ mem = <<>>
    /\ live = {}
    /\ regions = {}
    /\ hist = <<>>
    /\ map_sizes = <<>>
    /\ map_classes = <<>>
    /\ start = 0 /\ end = 0 /\ byte_pos = 0 /\ page_pos = 0
    /\ live_bytes = {} /\ live_pages = {}

CanCallBump == ~panicked /\ Len(hist) < MaxBumpOps
Initialized == hist # <<>>

\* BaseAllocator::init(start, size), called once, first
bump_init(s, size) ==
    /\ CanCallBump
    /\ ~Initialized
    /\ end' = s + size
    /\ start' = s
    /\ byte_pos' = s
    /\ page_pos' = s + size
    /\ hist' = Append(hist, Call("init", s, size, "Ok", 0, 0, 0))
    /\ UNCHANGED <<overflow_checks, panicked, labvars, map_sizes, map_classes,
                   live_bytes, live_pages>>

\* ByteAllocator::alloc(layout): result and byte_pos left behind
bump_alloc_result(bp, pp, size, align) ==
    LET mask == align - 1
        b_pos == AndNot(bp + mask, mask)
        b_end == b_pos + size
    IN  IF ULt(pp, b_end)
        THEN [res |-> "NoMemory", ret |-> 0, byte_pos |-> bp]
        ELSE IF b_pos = 0
        THEN [res |-> "Panic", ret |-> 0, byte_pos |-> b_end]
        ELSE [res |-> "Ok", ret |-> b_pos, byte_pos |-> b_end]

\* ByteAllocator::alloc(layout)
bump_alloc(size, align) ==
    LET r == bump_alloc_result(byte_pos, page_pos, size, align)
    IN  /\ CanCallBump
        /\ Initialized
        /\ byte_pos' = r.byte_pos
        /\ panicked' = (r.res = "Panic")
        /\ live_bytes' = IF r.res = "Ok" THEN live_bytes \cup {<<r.ret, size>>} ELSE live_bytes
        /\ hist' = Append(hist, Call("alloc", 0, size, r.res, r.ret, align, 0))
        /\ UNCHANGED <<overflow_checks, labvars, map_sizes, map_classes,
                       start, end, page_pos, live_pages>>

\* dealloc that rewinds byte_pos whatever the end of the freed range is
bump_dealloc_result_always(bp, pos, size) == pos

\* ByteAllocator::dealloc(pos, layout): byte_pos left behind
bump_dealloc_result(bp, pos, size) ==
    LET b_end == pos + size
    IN  IF b_end = bp THEN pos ELSE bp

\* ByteAllocator::dealloc(pos, layout), for a range alloc returned with this layout
bump_dealloc(pos, size) ==
    /\ CanCallBump
    /\ <<pos, size>> \in live_bytes
    /\ byte_pos' = bump_dealloc_result(byte_pos, pos, size)
    /\ live_bytes' = live_bytes \ {<<pos, size>>}
    /\ hist' = Append(hist, Call("dealloc", pos, size, "Ok", 0, 0, 0))
    /\ UNCHANGED <<overflow_checks, panicked, labvars, map_sizes, map_classes,
                   start, end, page_pos, live_pages>>

\* PageAllocator::alloc_pages(num_pages, align_pow2): result and page_pos left
\* behind.  p_end - num_pages * PAGE_SIZE is a usize subtraction: it panics
\* with overflow checks and wraps without them.
alloc_pages_result(bp, pp, num_pages, align_pow2, oc) ==
    LET align == Pow2(align_pow2)
        mask == align - 1
        p_end == AndNot(pp, mask)
        p_pos == p_end - num_pages * PAGE_SIZE
    IN  IF oc /\ ULt(p_end, num_pages * PAGE_SIZE)
        THEN [res |-> "Panic", ret |-> 0, page_pos |-> pp]
        ELSE IF ULt(p_pos, bp)
        THEN [res |-> "NoMemory", ret |-> 0, page_pos |-> pp]
        ELSE [res |-> "Ok", ret |-> p_pos, page_pos |-> p_pos]

\* PageAllocator::alloc_pages(num_pages, align_pow2)
alloc_pages(num_pages, align_pow2) ==
    LET r == alloc_pages_result(byte_pos, page_pos, num_pages, align_pow2, overflow_checks)
    IN  /\ CanCallBump
        /\ Initialized
        /\ page_pos' = r.page_pos
        /\ panicked' = (r.res = "Panic")
        /\ live_pages' = IF r.res = "Ok" THEN live_pages \cup {<<r.ret, num_pages>>} ELSE live_pages
        /\ hist' = Append(hist, Call("alloc_pages", 0, num_pages, r.res, r.ret, align_pow2, 0))
        /\ UNCHANGED <<overflow_checks, labvars, map_sizes, map_classes,
                       start, end, byte_pos, live_bytes>>

\* PageAllocator::dealloc_pages(pos, num_pages): page_pos left behind
dealloc_pages_result(pp, pos, num_pages) ==
    LET p_end == pos + num_pages * PAGE_SIZE
    IN  IF p_end = pp THEN pos ELSE pp

\* PageAllocator::dealloc_pages(pos, num_pages), for a run alloc_pages returned
dealloc_pages(pos, num_pages) ==
    /\ CanCallBump
    /\ <<pos, num_pages>> \in live_pages
    /\ page_pos' = dealloc_pages_result(page_pos, pos, num_pages)
    /\ live_pages' = live_pages \ {<<pos, num_pages>>}
    /\ hist' = Append(hist, Call("dealloc_pages", pos, num_pages, "Ok", 0, 0, 0))
    /\ UNCHANGED <<overflow_checks, panicked, labvars, map_sizes, map_classes,
                   start, end, byte_pos, live_bytes>>

\* ByteAllocator::used_bytes and available_bytes of EarlyAllocator
bump_used_bytes == byte_pos - start
bump_available_bytes == page_pos - byte_pos

\* num_pages > available_pages(), for available_pages() =
\* (page_pos - byte_pos) / PAGE_SIZE: a wrapped difference is at least 2^63
\* and its quotient is above every num_pages of the requests
ExceedsAvailablePages(num_pages) ==
    /\ bump_available_bytes >= 0
    /\ num_pages > bump_available_bytes \div PAGE_SIZE

NextBump ==
    \/ \E r \in BumpRegions : bump_init(r[1], r[2])
    \/ \E n \in BumpSizes, al \in BumpAligns : bump_alloc(n, al)
    \/ \E b \in live_bytes : bump_dealloc(b[1], b[2])
    \/ \E n \in PageCounts, al \in AlignPow2s : alloc_pages(n, al)
    \/ \E p \in live_pages : dealloc_pages(p[1], p[2])

SpecBump == InitBump /\ [][NextBump]_vars

\* --------------------------------------------------- EarlyAllocator claims
\* C9: after init and any sequence of alloc, dealloc, alloc_pages and
\* dealloc_pages, start <= byte_pos <= page_pos <= end in every state,
\* also after failed operations.
C9_CursorInvariant ==
    /\ ULe(start, byte_pos)
    /\ ULe(byte_pos, page_pos)
    /\ ULe(page_pos, end)

\* the words of [a, a + len) and [b, b + m) have a word in common
Overlap(a, len, b, m) == len > 0 /\ m > 0 /\ ULt(a, b + m) /\ ULt(b, a + len)
\* [a, a + len) lies in [start, end)
InRange(a, len) == ULe(start, a) /\ ULe(a, a + len) /\ ULe(a + len, end)

\* C10: no live byte range returned by alloc overlaps a live page run returned
\* by alloc_pages, and both lie inside [start, end).
C10_NonOverlap ==
    /\ \A b \in live_bytes : InRange(b[1], b[2])
    /\ \A p \in live_pages : InRange(p[1], p[2] * PAGE_SIZE)
    /\ \A b \in live_bytes, p \in live_pages :
           ~Overlap(b[1], b[2], p[1], p[2] * PAGE_SIZE)

\* the call appended to hist by this step
NewCall == hist'[Len(hist')]

\* C11: every alloc whose aligned request exceeds available_bytes and every
\* alloc_pages whose count exceeds available_pages, also a count for which
\* count * PAGE_SIZE is larger than the aligned page_pos, returns NoMemory and
\* leaves byte_pos and page_pos unchanged.
C11_OutOfMemory ==
    [][ /\ (/\ hist' # hist
            /\ NewCall.op = "alloc_pages"
            /\ ExceedsAvailablePages(NewCall.n))
           => (NewCall.res = "NoMemory" /\ UNCHANGED <<byte_pos, page_pos>>)
        /\ (/\ hist' # hist
            /\ NewCall.op = "alloc"
            /\ LET mask == NewCall.blk - 1
                   b_pos == AndNot(byte_pos + mask, mask)
               IN  ULt(bump_available_bytes, b_pos - byte_pos + NewCall.n))
           => (NewCall.res = "NoMemory" /\ UNCHANGED <<byte_pos, page_pos>>) ]_vars

\* the call of hist that returned the live byte range b
AllocIndex(b) ==
    CHOOSE i \in DOMAIN hist :
        /\ hist[i].op = "alloc" /\ hist[i].res = "Ok"
        /\ hist[i].ret = b[1] /\ hist[i].n = b[2]
        /\ \A k \in DOMAIN hist :
               (hist[k].op = "alloc" /\ hist[k].res = "Ok"
                /\ hist[k].ret = b[1] /\ hist[k].n = b[2]) => k <= i

\* a byte range allocated after b is still live
LaterLive(b) == \E b2 \in live_bytes \ {b} : AllocIndex(b2) > AllocIndex(b)

\* C12: dealloc(address, size) sets byte_pos to address exactly when
\* address + size == byte_pos, which only happens for the most recently
\* allocated live range; for an earlier allocation it changes no cursor; in
\* both cases page_pos, start and end are unchanged.
C12_LifoDealloc ==
    [][ (hist' # hist /\ NewCall.op = "dealloc")
        => /\ IF NewCall.a + NewCall.n = byte_pos
              THEN byte_pos' = NewCall.a
              ELSE byte_pos' = byte_pos
           /\ LaterLive(<<NewCall.a, NewCall.n>>) => byte_pos' = byte_pos
           /\ UNCHANGED <<page_pos, start, end>> ]_vars

\* C12 witness: two ranges were allocated; the dealloc of the first one left
\* byte_pos alone and the dealloc of the second one rewound byte_pos to it
C12_Witness ==
    /\ Len(hist) >= 5
    /\ hist[Len(hist)].op = "dealloc"
    /\ hist[Len(hist) - 1].op = "dealloc"
    /\ hist[Len(hist) - 1].a < hist[Len(hist)].a
    /\ byte_pos = hist[Len(hist)].a
    /\ live_bytes = {}

\* C13: dealloc_pages(address, count) reclaims the run, page_pos moving back
\* up past it, when and only when the run is the most recently allocated one
\* (its base is page_pos); for any other returned run it leaves byte_pos and
\* page_pos unchanged.
C13_PageDeallocSymmetric ==
    [][ (hist' # hist /\ NewCall.op = "dealloc_pages")
        => /\ byte_pos' = byte_pos
           /\ IF NewCall.a = page_pos
              THEN page_pos' = NewCall.a + NewCall.n * PAGE_SIZE
              ELSE page_pos' = page_pos ]_vars

\* C14: whenever every byte allocation made since init has been deallocated,
\* in any order, the bytes-used area is released: byte_pos == start and
\* used_bytes() == 0.
C14_BytesFreedAtZero ==
    (Initialized /\ live_bytes = {})
        => (byte_pos = start /\ bump_used_bytes = 0)

\* C20: every base address returned by a successful
\* alloc_pages(count, align_pow2) is a multiple of 2^align_pow2.
C20_PageAlignment ==
    \A i \in DOMAIN hist :
        (hist[i].op = "alloc_pages" /\ hist[i].res = "Ok")
            => hist[i].ret % Pow2(hist[i].blk) = 0

\* ------------------------------------------ LabByteAllocator claims, second part
\* floor(log2(size)), the position of the highest set bit of size
RefFl(size) == CHOOSE k \in 0..(FL_INDEX_COUNT + 1) : Pow2(k) <= size /\ size < Pow2(k + 1)

\* log2(SL_INDEX_COUNT)
SlBits == Log2Loop(SL_INDEX_COUNT, 0)

\* (size >> (fl - log2(SL_INDEX_COUNT))) & (SL_INDEX_COUNT - 1), for fl >= log2(SL_INDEX_COUNT)
RefSl(size) == Shr(size, RefFl(size) - SlBits) % SL_INDEX_COUNT

\* mapping(size) returned class c as the reference definition has it
MatchesReference(size, c) ==
    /\ ~c.panic
    /\ c.fl = RefFl(size)
    /\ RefFl(size) >= SlBits => c.sl = RefSl(size)
    /\ c.fl \in FLs /\ c.sl \in SLs

\* C15: for every supported size, mapping(size) returns fl = floor(log2(size))
\* and sl = (size >> (fl - log2(SL_INDEX_COUNT))) & (SL_INDEX_COUNT - 1), with
\* fl < FL_INDEX_COUNT and sl < SL_INDEX_COUNT, and the computation involves no
\* unsigned underflow (no panic in a build with overflow checks).
C15_MappingReference ==
    map_classes # <<>>
        => /\ MatchesReference(map_sizes[1], map_classes[1])
           /\ MatchesReference(map_sizes[2], map_classes[2])

\* the blocks that the first k calls of hist registered, deallocated or split
\* off and that alloc has not returned since
RECURSIVE ExpectedFree(_)
ExpectedFree(k) ==
    IF k = 0 THEN {}
    ELSE LET c == hist[k]
             prev == ExpectedFree(k - 1)
         IN  IF c.res # "Ok" THEN prev
             ELSE IF c.op \in {"init", "add_memory"} THEN prev \cup {AlignUp(c.a)}
             ELSE IF c.op = "dealloc" THEN prev \cup {c.a}
             ELSE (prev \ {c.ret})
                  \cup (IF ULt(AlignUp(c.n) + HEADER_SIZE, c.blk)
                        THEN {c.ret + AlignUp(c.n)} ELSE {})

\* C16: inserting a free block into a bucket that is already non-empty keeps
\* the earlier blocks: every block that was registered, deallocated or split
\* off and not since returned by alloc is still held by the index (no code
\* links or follows next_free / prev_free, so the index holds the bucket heads).
C16_FreeBlocksKept ==
    ExpectedFree(Len(hist)) \subseteq FreeSet

\* [a, a + len) and [b, b + m) have a byte in common
RangesMeet(a, len, b, m) == a < b + m /\ b < a + len

\* C17: the ranges [addr, addr + rounded size) of two blocks returned by alloc
\* and not yet deallocated do not overlap each other or a block of the free
\* index, and each lies inside a region registered by init / add_memory.
C17_LiveDisjoint ==
    \A b \in live :
        LET len == AlignUp(b[2])
        IN  /\ \E r \in regions : r[1] <= b[1] /\ b[1] + len <= r[1] + r[2]
            /\ \A b2 \in live \ {b} : ~RangesMeet(b[1], len, b2[1], AlignUp(b2[2]))
            /\ \A f \in FreeSet : ~RangesMeet(b[1], len, f, mem[f])

\* C18: in every state reachable by init followed by add_memory, alloc and
\* dealloc, used_bytes() <= total_bytes(), so that available_bytes() never
\* underflows.
C18_UsedWithinTotal ==
    ULe(used_bytes, total_bytes) /\ available_bytes >= 0

\* C19: for every (start, size) passed to init or add_memory, also a start
\* that is not a multiple of 8, the free block inserted,
\* [aligned_start, aligned_start + aligned_size), is contained in
\* [start, start + size).
C19_RegionContained ==
    [][ (/\ hist' # hist
         /\ NewCall.op \in {"init", "add_memory"}
         /\ NewCall.res = "Ok")
        => LET aligned_start == AlignUp(NewCall.a)
           IN  /\ aligned_start \in FreeSet'
               /\ NewCall.a <= aligned_start
               /\ aligned_start + mem'[aligned_start] <= NewCall.a + NewCall.n ]_vars

====
